---- MODULE Spec2Model ----
(***************************************************************************)
(* The two OAuth example services (google: send-gmail; gist-creator:       *)
(* get-github-profile, create-github-gist).  Each service is one process   *)
(* with its own in-memory tokenStore, an onSuccess completion callback     *)
(* that writes it, and tool handlers that read it and then either ask the  *)
(* caller to authenticate or make one authenticated HTTP call.             *)
(*                                                                         *)
(* JavaScript values are tagged records ([kind |-> ...]) so that values of *)
(* different JavaScript types can be compared.  The strings of the e-mail  *)
(* encoding are sequences of character codes; bytes are 0..255.            *)
(***************************************************************************)
EXTENDS Integers, Sequences, FiniteSets, TLC

VARIABLES
    service,      \* which of the two programs this process is
    tokenStore,   \* the Map<string, OAuth2Tokens>, as its entry list in insertion order
    inv,          \* the in-flight handler activations: locals, position, calls made, result
    lastGranted,  \* history: the tokens of the latest onSuccess per agent
    raced,        \* history: per activation, whether the store held the caller's
                  \* credential at the moment a needs-authentication result was returned
    email,        \* the arguments {to, subject, body} given to send-gmail
    encodedEmail  \* the raw payload computed from them (<<>> before it is computed)

vars == <<service, tokenStore, inv, lastGranted, raced, email, encodedEmail>>

(***************************************************************************)
(* Bounds of the model.                                                    *)
(***************************************************************************)
MaxInFlight == 1      \* handler activations that may be in flight at once
MaxFieldLen == 2      \* longest recipient / subject / body in the encoding check

(***************************************************************************)
(* JavaScript values.                                                      *)
(***************************************************************************)
Undefined == [kind |-> "undefined"]
Null == [kind |-> "null"]
JsString(s) == [kind |-> "string", val |-> s]
JsObject(f) == [kind |-> "object", fields |-> f]

\* !v for the values that occur here: undefined and null are falsy, objects truthy
Falsy(v) == v.kind \in {"undefined", "null"}

\* obj.name on a parsed JSON object: a missing property reads as undefined
GetProp(obj, name) ==
    IF name \in DOMAIN obj.fields THEN obj.fields[name] ELSE Undefined

(***************************************************************************)
(* Map<string, OAuth2Tokens>: get returns the value of the entry with the  *)
(* key or undefined; set replaces the value of an existing key in place    *)
(* and appends a new entry otherwise.                                      *)
(***************************************************************************)
MapHas(m, k) == \E n \in 1..Len(m) : m[n].key = k

MapGet_IgnoreKey(m, k) == IF Len(m) > 0 THEN m[1].value ELSE Undefined

MapGet(m, k) ==
    IF MapHas(m, k)
    THEN m[CHOOSE n \in 1..Len(m) : m[n].key = k].value
    ELSE Undefined

MapSet_Append(m, k, v) == Append(m, [key |-> k, value |-> v])

MapSet_Reset(m, k, v) == <<[key |-> k, value |-> v]>>

MapSet(m, k, v) ==
    IF MapHas(m, k)
    THEN [n \in 1..Len(m) |-> IF m[n].key = k THEN [key |-> k, value |-> v] ELSE m[n]]
    ELSE Append(m, [key |-> k, value |-> v])

(***************************************************************************)
(* The e-mail composition and its encoding (send-gmail).                   *)
(***************************************************************************)
\* 'Content-Type: text/plain; charset="UTF-8"\n'
HeaderContentType ==
    <<67, 111, 110, 116, 101, 110, 116, 45, 84, 121, 112, 101, 58, 32, 116, 101,
      120, 116, 47, 112, 108, 97, 105, 110, 59, 32, 99, 104, 97, 114, 115, 101,
      116, 61, 34, 85, 84, 70, 45, 56, 34, 10>>
\* 'MIME-Version: 1.0\n'
HeaderMimeVersion ==
    <<77, 73, 77, 69, 45, 86, 101, 114, 115, 105, 111, 110, 58, 32, 49, 46, 48, 10>>
\* 'To: ' and 'Subject: '
ToPrefix == <<84, 111, 58, 32>>
SubjectPrefix == <<83, 117, 98, 106, 101, 99, 116, 58, 32>>
LF == <<10>>

\* [ ... ].join(''): the five pieces concatenated
ComposeEmail(to, subject, body) ==
    HeaderContentType \o HeaderMimeVersion
        \o (ToPrefix \o to \o LF)
        \o (SubjectPrefix \o subject \o LF \o LF)
        \o body

\* Buffer.from(string): the UTF-8 bytes of one BMP code point (no surrogates)
Utf8Char(c) ==
    IF c < 128 THEN <<c>>
    ELSE IF c < 2048 THEN <<192 + (c \div 64), 128 + (c % 64)>>
    ELSE <<224 + (c \div 4096), 128 + ((c \div 64) % 64), 128 + (c % 64)>>

\* the bytes of the code points lo..hi of s, in order
RECURSIVE Utf8Range(_, _, _)
Utf8Range(s, lo, hi) ==
    IF lo > hi THEN <<>>
    ELSE IF lo = hi THEN Utf8Char(s[lo])
    ELSE LET mid == (lo + hi) \div 2
         IN Utf8Range(s, lo, mid) \o Utf8Range(s, mid + 1, hi)

Utf8Bytes(s) == Utf8Range(s, 1, Len(s))

\* the standard base64 alphabet 'A'..'Z', 'a'..'z', '0'..'9', '+', '/' as character
\* codes, index 0..63 at position 1..64
Base64Alphabet ==
    <<65, 66, 67, 68, 69, 70, 71, 72, 73, 74, 75, 76, 77, 78, 79, 80,
      81, 82, 83, 84, 85, 86, 87, 88, 89, 90, 97, 98, 99, 100, 101, 102,
      103, 104, 105, 106, 107, 108, 109, 110, 111, 112, 113, 114, 115, 116, 117, 118,
      119, 120, 121, 122, 48, 49, 50, 51, 52, 53, 54, 55, 56, 57, 43, 47>>

\* the characters the encoding rewrites
Plus == 43
Slash == 47
Pad == 61
Minus == 45
Underscore == 95

B64(n) == Base64Alphabet[n + 1]

\* the four characters of the g-th group of three bytes (g from 1); the last
\* group is padded with '=' when it has one or two bytes only
Base64Group(b, g) ==
    LET n == 3 * g - 2
        left == Len(b) - n + 1
    IN IF left = 1 THEN
           <<B64(b[n] \div 4), B64((b[n] % 4) * 16), Pad, Pad>>
       ELSE IF left = 2 THEN
           <<B64(b[n] \div 4), B64((b[n] % 4) * 16 + (b[n+1] \div 16)),
             B64((b[n+1] % 16) * 4), Pad>>
       ELSE
           <<B64(b[n] \div 4), B64((b[n] % 4) * 16 + (b[n+1] \div 16)),
             B64((b[n+1] % 16) * 4 + (b[n+2] \div 64)), B64(b[n+2] % 64)>>

\* toString('base64'): the groups lo..hi, in order
RECURSIVE Base64Range(_, _, _)
Base64Range(b, lo, hi) ==
    IF lo > hi THEN <<>>
    ELSE IF lo = hi THEN Base64Group(b, lo)
    ELSE LET mid == (lo + hi) \div 2
         IN Base64Range(b, lo, mid) \o Base64Range(b, mid + 1, hi)

Base64(b) == Base64Range(b, 1, (Len(b) + 2) \div 3)

\* .replace(/x/g, y): every occurrence of the character
ReplaceAll(s, x, y) == [n \in 1..Len(s) |-> IF s[n] = x THEN y ELSE s[n]]

StripPadding_One(s) ==
    IF Len(s) > 0 /\ s[Len(s)] = Pad THEN SubSeq(s, 1, Len(s) - 1) ELSE s

\* .replace(/=+$/, ''): the whole run of '=' at the end
RECURSIVE StripPadding(_)
StripPadding(s) ==
    IF Len(s) > 0 /\ s[Len(s)] = Pad THEN StripPadding(SubSeq(s, 1, Len(s) - 1)) ELSE s

\* Buffer.from(email).toString('base64').replace(/\+/g, '-').replace(/\//g, '_').replace(/=+$/, '')
EncodeEmail(to, subject, body) ==
    StripPadding(
        ReplaceAll(
            ReplaceAll(Base64(Utf8Bytes(ComposeEmail(to, subject, body))), Plus, Minus),
            Slash, Underscore))

(***************************************************************************)
(* The services, their tools and the values the environment supplies.      *)
(***************************************************************************)
Services == {"google", "gist-creator"}
AgentIds == {"agentA", "agentB"}
AccessTokens == {"tok1", "tok2"}
Statuses == {200, 401}
BodyKinds == {"success", "error", "null", "notJson"}
Slots == 1..MaxInFlight

\* the tools list of each service
ToolIds(s) ==
    IF s = "google" THEN {"send-gmail"}
    ELSE {"get-github-profile", "create-github-gist"}

\* the provider name each handler passes to generateAuthUrl and puts in uiData
Provider(tool) == IF tool = "send-gmail" THEN "google" ELSE "github"

\* an OAuth2Tokens value as the completion callback receives it
OAuth2Tokens(t) == [kind |-> "object", accessToken |-> t]

\* the arguments of send-gmail used in the state machine: a@b.com, "Hi", "hello\n"
EmailArgs ==
    [to |-> <<97, 64, 98, 46, 99, 111, 109>>,
     subject |-> <<72, 105>>,
     body |-> <<104, 101, 108, 108, 111, 10>>]

\* the arguments of create-github-gist used in the model
GistArgs == [description |-> "d", public |-> FALSE, filename |-> "a.txt", content |-> "x"]

(***************************************************************************)
(* The OAuth2 delegate of the SDK.  The services register an oauth2        *)
(* section, so app.oauth2 is present; generateAuthUrl is the SDK's and is  *)
(* modelled from its interface: a URL for the provider and the caller.     *)
(***************************************************************************)
OAuth2Configured == TRUE

AuthorizationUrl(provider) ==
    IF provider = "google" THEN "https://accounts.google.com/o/oauth2/v2/auth"
    ELSE "https://github.com/login/oauth/authorize"

GenerateAuthUrl(provider, agentId) ==
    JsString(AuthorizationUrl(provider) \o "?state=" \o agentId)

\* app.oauth2?.generateAuthUrl(provider, agentInfo.id)
AuthUrl(provider, agentId) ==
    IF OAuth2Configured THEN GenerateAuthUrl(provider, agentId) ELSE Undefined

(***************************************************************************)
(* The two results a handler returns and the request it sends.             *)
(***************************************************************************)
NeedsAuthResult_WrongProvider(tool, authUrl) ==
    [kind |-> "object",
     text |-> <<"Please authenticate first">>,
     data |-> Null,
     ui |-> [type |-> "oauth2",
             uiData |-> [title |-> "Authentication", url |-> authUrl,
                         provider |-> "google"]]]

NeedsAuthResult(tool, authUrl) ==
    [kind |-> "object",
     text |-> IF tool = "send-gmail"
              THEN <<"Please authenticate with Google first">>
              ELSE <<"Please authenticate with GitHub first, i have displayed a component to authenticate with GitHub">>,
     data |-> Null,
     ui |-> [type |-> "oauth2",
             uiData |-> [title |-> IF tool = "send-gmail" THEN "Google Authentication"
                                   ELSE "GitHub Authentication",
                         url |-> authUrl,
                         provider |-> Provider(tool)]]]

Endpoint(tool) ==
    CASE tool = "send-gmail" -> "https://gmail.googleapis.com/gmail/v1/users/me/messages/send"
      [] tool = "get-github-profile" -> "https://api.github.com/user"
      [] tool = "create-github-gist" -> "https://api.github.com/gists"

\* the argument of fetch(): the Authorization header is `Bearer ${tokens.accessToken}`
\* the characters of an encoded string, for writing it as a string value
PrintableChars ==
    <<"A","B","C","D","E","F","G","H","I","J","K","L","M","N","O","P",
      "Q","R","S","T","U","V","W","X","Y","Z","a","b","c","d","e","f",
      "g","h","i","j","k","l","m","n","o","p","q","r","s","t","u","v",
      "w","x","y","z","0","1","2","3","4","5","6","7","8","9","+","/",
      "-","_","=">>

PrintableCodes == Base64Alphabet \o <<Minus, Underscore, Pad>>

RECURSIVE StringOf(_, _, _)
StringOf(s, lo, hi) ==
    IF lo > hi THEN ""
    ELSE IF lo = hi
    THEN PrintableChars[CHOOSE m \in 1..Len(PrintableCodes) : PrintableCodes[m] = s[lo]]
    ELSE LET mid == (lo + hi) \div 2
         IN StringOf(s, lo, mid) \o StringOf(s, mid + 1, hi)

\* body: JSON.stringify({ raw: encodedEmail })
SendEmailBody ==
    LET encodedEmail_ == EncodeEmail(EmailArgs.to, EmailArgs.subject, EmailArgs.body)
    IN [raw |-> StringOf(encodedEmail_, 1, Len(encodedEmail_))]

Request(tool, tokens) ==
    [url |-> Endpoint(tool),
     method |-> IF tool = "get-github-profile" THEN "GET" ELSE "POST",
     authorization |-> "Bearer " \o tokens.accessToken,
     body |-> CASE tool = "send-gmail" -> SendEmailBody
                [] tool = "get-github-profile" -> Undefined
                [] tool = "create-github-gist" ->
                     [description |-> GistArgs.description,
                      public |-> GistArgs.public,
                      files |-> (GistArgs.filename :> [content |-> GistArgs.content])]]

\* what response.json() yields for each kind of body a provider can send
ParsedBody(tool, bodyKind) ==
    CASE bodyKind = "null" -> Null
      [] bodyKind = "error" -> JsObject([message |-> JsString("Bad credentials")])
      [] bodyKind = "success" ->
            CASE tool = "send-gmail" -> JsObject([id |-> JsString("msg1")])
              [] tool = "get-github-profile" ->
                    JsObject([login |-> JsString("bob"), name |-> JsString("Bob"),
                              email |-> JsString("b@x.com"), bio |-> JsString("hi"),
                              public_repos |-> JsString("3")])
              [] tool = "create-github-gist" ->
                    JsObject([html_url |-> JsString("https://gist.github.com/g1"),
                              id |-> JsString("g1")])

ActionResult_NullData(tool, parsed) ==
    [kind |-> "object", text |-> <<"done">>, data |-> Null,
     ui |-> [type |-> "card", uiData |-> [title |-> "Result"]]]

\* the object returned after the call: summary, data payload, "card" UI hint
ActionResult(tool, parsed) ==
    CASE tool = "send-gmail" ->
            [kind |-> "object",
             text |-> <<"Email sent successfully">>,
             data |-> JsObject([messageId |-> GetProp(parsed, "id")]),
             ui |-> [type |-> "card",
                     uiData |-> [title |-> "Email Sent",
                                 content |-> <<EmailArgs.to, EmailArgs.subject, GetProp(parsed, "id")>>]]]
      [] tool = "get-github-profile" ->
            [kind |-> "object",
             text |-> <<"Retrieved GitHub profile for ", GetProp(parsed, "login")>>,
             data |-> JsObject([login |-> GetProp(parsed, "login"),
                                name |-> GetProp(parsed, "name"),
                                email |-> GetProp(parsed, "email"),
                                bio |-> GetProp(parsed, "bio"),
                                public_repos |-> GetProp(parsed, "public_repos")]),
             ui |-> [type |-> "card",
                     uiData |-> [title |-> "GitHub Profile",
                                 content |-> <<GetProp(parsed, "login"), GetProp(parsed, "name"),
                                               GetProp(parsed, "email"), GetProp(parsed, "bio"),
                                               GetProp(parsed, "public_repos")>>]]]
      [] tool = "create-github-gist" ->
            [kind |-> "object",
             text |-> <<"Created Gist: ", GetProp(parsed, "html_url")>>,
             data |-> JsObject([html_url |-> GetProp(parsed, "html_url"),
                                id |-> GetProp(parsed, "id")]),
             ui |-> [type |-> "card",
                     uiData |-> [title |-> "GitHub Gist",
                                 content |-> <<GetProp(parsed, "html_url"), GetProp(parsed, "id")>>,
                                 buttonText |-> "View Gist",
                                 buttonUrl |-> GetProp(parsed, "html_url")]]]

(***************************************************************************)
(* State after construction: an empty store, no handler running.           *)
(***************************************************************************)
IdleActivation ==
    [pc |-> "idle", tool |-> "", agentId |-> "", tokens |-> Undefined,
     calls |-> <<>>, response |-> Undefined, result |-> Undefined]

Init ==
    /\ service \in Services
    /\ tokenStore = <<>>
    /\ inv = [i \in Slots |-> IdleActivation]
    /\ lastGranted = [a \in AgentIds |-> Undefined]
    /\ raced = [i \in Slots |-> FALSE]
    /\ email = EmailArgs
    /\ encodedEmail = <<>>

Finished(i) == inv[i].pc \in {"idle", "returned", "failed"}

(***************************************************************************)
(* onSuccess(agentId, tokens): the completion callback stores the tokens.  *)
(***************************************************************************)
onSuccess(agentId, tokens) ==
    /\ tokenStore' = MapSet(tokenStore, agentId, tokens)
    /\ lastGranted' = [lastGranted EXCEPT ![agentId] = tokens]
    /\ UNCHANGED <<service, inv, raced, email, encodedEmail>>

(***************************************************************************)
(* A handler from its start to its first await: the lookup, then either    *)
(* the call of generateAuthUrl or the call of fetch, which is issued in    *)
(* the same synchronous run as the lookup.                                 *)
(***************************************************************************)
HandlerStart(i, tool, agentId) ==
    /\ Finished(i)
    /\ LET tokens == MapGet(tokenStore, agentId) IN
         inv' = [inv EXCEPT ![i] =
                    IF Falsy(tokens)
                    THEN [IdleActivation EXCEPT !.pc = "awaitAuthUrl", !.tool = tool,
                                                !.agentId = agentId, !.tokens = tokens]
                    ELSE [IdleActivation EXCEPT !.pc = "awaitFetch", !.tool = tool,
                                                !.agentId = agentId, !.tokens = tokens,
                                                !.calls = <<Request(tool, tokens)>>]]
    /\ raced' = [raced EXCEPT ![i] = FALSE]
    /\ UNCHANGED <<service, tokenStore, lastGranted, email, encodedEmail>>

\* each handler is callable in the service whose tools list holds its tool
sendEmailHandler(i, agentId) ==
    /\ "send-gmail" \in ToolIds(service)
    /\ HandlerStart(i, "send-gmail", agentId)

getUserProfileHandler(i, agentId) ==
    /\ "get-github-profile" \in ToolIds(service)
    /\ HandlerStart(i, "get-github-profile", agentId)

createGistHandler(i, agentId) ==
    /\ "create-github-gist" \in ToolIds(service)
    /\ HandlerStart(i, "create-github-gist", agentId)

(***************************************************************************)
(* await generateAuthUrl(...) resumes: the handler returns the             *)
(* needs-authentication result without looking at the store again.         *)
(***************************************************************************)
AuthUrlResolved_Recheck(i) ==
    /\ inv[i].pc = "awaitAuthUrl"
    /\ LET tokens == MapGet(tokenStore, inv[i].agentId) IN
         inv' = [inv EXCEPT ![i] =
                    IF Falsy(tokens)
                    THEN [@ EXCEPT !.pc = "returned",
                                   !.result = NeedsAuthResult(inv[i].tool,
                                                 AuthUrl(Provider(inv[i].tool), inv[i].agentId))]
                    ELSE [@ EXCEPT !.pc = "awaitFetch", !.tokens = tokens,
                                   !.calls = <<Request(inv[i].tool, tokens)>>]]
    /\ raced' = [raced EXCEPT ![i] = FALSE]
    /\ UNCHANGED <<service, tokenStore, lastGranted, email, encodedEmail>>

AuthUrlResolved(i) ==
    /\ inv[i].pc = "awaitAuthUrl"
    /\ inv' = [inv EXCEPT ![i] =
                  [@ EXCEPT !.pc = "returned",
                            !.result = NeedsAuthResult(inv[i].tool,
                                          AuthUrl(Provider(inv[i].tool), inv[i].agentId))]]
    /\ raced' = [raced EXCEPT ![i] = MapHas(tokenStore, inv[i].agentId)]
    /\ UNCHANGED <<service, tokenStore, lastGranted, email, encodedEmail>>

\* generateAuthUrl rejects: the handler's promise rejects, nothing is returned
AuthUrlRejected(i) ==
    /\ inv[i].pc = "awaitAuthUrl"
    /\ inv' = [inv EXCEPT ![i].pc = "failed"]
    /\ UNCHANGED <<service, tokenStore, lastGranted, raced, email, encodedEmail>>

(***************************************************************************)
(* await fetch(...) resumes with a response of any status (fetch does not  *)
(* reject on a non-2xx status), or rejects on a network error.             *)
(***************************************************************************)
FetchResolved(i, status) ==
    /\ inv[i].pc = "awaitFetch"
    /\ inv' = [inv EXCEPT ![i] =
                  [@ EXCEPT !.pc = "awaitJson",
                            !.response = [kind |-> "response", status |-> status]]]
    /\ UNCHANGED <<service, tokenStore, lastGranted, raced, email, encodedEmail>>

FetchRejected_Retry(i) ==
    /\ inv[i].pc = "awaitFetch"
    /\ inv' = [inv EXCEPT ![i].calls = Append(@, Request(inv[i].tool, inv[i].tokens))]
    /\ UNCHANGED <<service, tokenStore, lastGranted, raced, email, encodedEmail>>

FetchRejected_Evict(i) ==
    /\ inv[i].pc = "awaitFetch"
    /\ inv' = [inv EXCEPT ![i].pc = "failed"]
    /\ tokenStore' = SelectSeq(tokenStore, LAMBDA e : e.key # inv[i].agentId)
    /\ UNCHANGED <<service, lastGranted, raced, email, encodedEmail>>

FetchRejected(i) ==
    /\ inv[i].pc = "awaitFetch"
    /\ inv' = [inv EXCEPT ![i].pc = "failed"]
    /\ UNCHANGED <<service, tokenStore, lastGranted, raced, email, encodedEmail>>

(***************************************************************************)
(* await response.json() resumes.  A body that is not JSON rejects; a body *)
(* that parses to null makes the property read throw; any other parsed     *)
(* value is mapped to the action result, whatever the status was.          *)
(***************************************************************************)
JsonResolved(i, bodyKind) ==
    /\ inv[i].pc = "awaitJson"
    /\ inv' = [inv EXCEPT ![i] =
                  IF bodyKind = "notJson" THEN [@ EXCEPT !.pc = "failed"]
                  ELSE IF Falsy(ParsedBody(inv[i].tool, bodyKind)) THEN [@ EXCEPT !.pc = "failed"]
                  ELSE [@ EXCEPT !.pc = "returned",
                                 !.result = ActionResult(inv[i].tool,
                                               ParsedBody(inv[i].tool, bodyKind))]]
    /\ UNCHANGED <<service, tokenStore, lastGranted, raced, email, encodedEmail>>

Next ==
    \/ \E a \in AgentIds, t \in AccessTokens : onSuccess(a, OAuth2Tokens(t))
    \/ \E i \in Slots, a \in AgentIds : sendEmailHandler(i, a)
    \/ \E i \in Slots, a \in AgentIds : getUserProfileHandler(i, a)
    \/ \E i \in Slots, a \in AgentIds : createGistHandler(i, a)
    \/ \E i \in Slots : AuthUrlResolved(i)
    \/ \E i \in Slots : AuthUrlRejected(i)
    \/ \E i \in Slots, st \in Statuses : FetchResolved(i, st)
    \/ \E i \in Slots : FetchRejected(i)
    \/ \E i \in Slots, b \in BodyKinds : JsonResolved(i, b)

Spec == Init /\ [][Next]_vars

(***************************************************************************)
(* The encoding on its own: the arguments of send-gmail range over short   *)
(* strings of '>', '?' and U+00E9, and the handler's composition and       *)
(* encoding step is applied to them.                                       *)
(***************************************************************************)
FieldAlphabet == {62, 63, 233}

FieldStrings == UNION {[1..n -> FieldAlphabet] : n \in 0..MaxFieldLen}

InitEnc ==
    /\ service = "google"
    /\ tokenStore = <<>>
    /\ inv = [i \in Slots |-> IdleActivation]
    /\ lastGranted = [a \in AgentIds |-> Undefined]
    /\ raced = [i \in Slots |-> FALSE]
    /\ email \in [to : FieldStrings, subject : FieldStrings, body : FieldStrings]
    /\ encodedEmail = <<>>

\* const email = [...].join(''); const encodedEmail = Buffer.from(email)...
ComposeAndEncode ==
    /\ encodedEmail = <<>>
    /\ encodedEmail' = EncodeEmail(email.to, email.subject, email.body)
    /\ UNCHANGED <<service, tokenStore, inv, lastGranted, raced, email>>

NextEnc == ComposeAndEncode

SpecEnc == InitEnc /\ [][NextEnc]_vars

(***************************************************************************)
(* C7.  base64url, stated without reference to the handler's route: the    *)
(* k-th character is the URL-safe letter of the k-th 6-bit group of the    *)
(* message bytes, and decoding regroups the letters into bytes.            *)
(***************************************************************************)
UrlSafeAlphabet ==
    [n \in 1..64 |-> IF n = 63 THEN Minus ELSE IF n = 64 THEN Underscore ELSE Base64Alphabet[n]]

Pow2(n) == CASE n = 0 -> 1 [] n = 2 -> 4 [] n = 4 -> 16 [] n = 6 -> 64
             [] n = 8 -> 256 [] n = 10 -> 1024

ByteAt(b, j) == IF j <= Len(b) THEN b[j] ELSE 0

\* the k-th 6-bit group (k from 1) of the bit string of b, zero-filled at the end
Sextet(b, k) ==
    LET o == 6 * (k - 1)
        j == (o \div 8) + 1
        r == o % 8
    IN ((ByteAt(b, j) * 256 + ByteAt(b, j + 1)) \div Pow2(10 - r)) % 64

UrlSafeEncoding(b) ==
    [k \in 1..((Len(b) * 8 + 5) \div 6) |-> UrlSafeAlphabet[Sextet(b, k) + 1]]

UrlSafeValue ==
    [c \in {UrlSafeAlphabet[n] : n \in 1..64} |->
        (CHOOSE n \in 1..64 : UrlSafeAlphabet[n] = c) - 1]

LetterValue(c) == UrlSafeValue[c]

LetterAt(s, k) == IF k <= Len(s) THEN LetterValue(s[k]) ELSE 0

Base64UrlDecode(s) ==
    [j \in 1..((Len(s) * 6) \div 8) |->
        LET o == 8 * (j - 1)
            k == (o \div 6) + 1
            r == o % 6
        IN ((LetterAt(s, k) * 64 + LetterAt(s, k + 1)) \div Pow2(4 - r)) % 256]

\* the code points of a UTF-8 byte string: the lead bytes, each with its
\* continuation bytes
Utf8Decode(b) ==
    LET leads == SelectSeq([n \in 1..Len(b) |-> n], LAMBDA n : b[n] < 128 \/ b[n] >= 192)
    IN [m \in 1..Len(leads) |->
          LET n == leads[m] IN
          IF b[n] < 128 THEN b[n]
          ELSE IF b[n] < 224 THEN (b[n] - 192) * 64 + (b[n+1] - 128)
          ELSE (b[n] - 224) * 4096 + (b[n+1] - 128) * 64 + (b[n+2] - 128)]

\* the message the claim describes: the four header lines, a blank line, the body
ExpectedMessage ==
    HeaderContentType \o HeaderMimeVersion \o ToPrefix \o email.to \o <<10>>
        \o SubjectPrefix \o email.subject \o <<10>> \o <<10>> \o email.body

\* C7: once computed, the raw payload is the URL-safe base64 of the bytes of the
\* composed message without padding: it has no '+', no '/' and no trailing '=',
\* and decoding it gives back the header block and the body exactly.
C7_Base64UrlRoundTrip ==
    encodedEmail # <<>> =>
        LET bytes == Utf8Bytes(ExpectedMessage)
            decoded == Base64UrlDecode(encodedEmail)
        IN /\ \A k \in 1..Len(encodedEmail) : encodedEmail[k] \notin {Plus, Slash, Pad}
           /\ encodedEmail = UrlSafeEncoding(bytes)
           /\ decoded = bytes
           /\ Utf8Decode(decoded) = ExpectedMessage

\* an encoding in which '+' and '/' were both replaced, and one whose padding was stripped
C7_Witness ==
    /\ encodedEmail # <<>>
    /\ \E k \in 1..Len(encodedEmail) : encodedEmail[k] = Minus
    /\ \E k \in 1..Len(encodedEmail) : encodedEmail[k] = Underscore
    /\ Len(encodedEmail) % 4 # 0
    /\ Len(email.body) > 0

(***************************************************************************)
(* Views of the state used by the properties below.  StoredFor reads the   *)
(* entry list directly, not through MapGet.                                *)
(***************************************************************************)
StoredFor(c) ==
    {tokenStore[n].value : n \in {m \in 1..Len(tokenStore) : tokenStore[m].key = c}}

\* the step in which a handler starts: from no activation in the slot to its first await
StartStep(i) == Finished(i) /\ inv'[i].pc \in {"awaitAuthUrl", "awaitFetch"}

IsNeedsAuth(r) == r.kind = "object" /\ r.data = Null /\ r.ui.type = "oauth2"

IsActionResult(r) ==
    r.kind = "object" /\ r.data # Null /\ r.data.kind = "object" /\ r.ui.type = "card"

Bearer(v) == "Bearer " \o v.accessToken

(***************************************************************************)
(* C1.                                                                     *)
(***************************************************************************)
\* C1: a handler started for a caller with no entry in the store observes "absent";
\* an activation that observed "absent" never issues an outbound call, and the
\* result it returns has null data and an "oauth2" UI hint with a non-empty URL
\* and the provider of the tool ("google" for send-gmail, "github" otherwise).
C1_NeedsAuthWhenAbsent ==
    /\ [](\A i \in Slots :
            (inv[i].pc # "idle" /\ Falsy(inv[i].tokens)) =>
                /\ inv[i].calls = <<>>
                /\ inv[i].pc \in {"awaitAuthUrl", "returned", "failed"}
                /\ inv[i].pc = "returned" =>
                      /\ inv[i].result.data = Null
                      /\ inv[i].result.ui.type = "oauth2"
                      /\ inv[i].result.ui.uiData.url.kind = "string"
                      /\ inv[i].result.ui.uiData.url.val # ""
                      /\ inv[i].result.ui.uiData.provider =
                            (IF inv[i].tool = "send-gmail" THEN "google" ELSE "github"))
    /\ [][\A i \in Slots :
            (StartStep(i) /\ StoredFor(inv'[i].agentId) = {}) =>
                Falsy(inv'[i].tokens) /\ inv'[i].pc = "awaitAuthUrl"]_vars

\* create-github-gist has returned the needs-authentication result to a caller
\* that has no entry in the store
C1_Witness ==
    \E i \in Slots :
        /\ inv[i].pc = "returned"
        /\ inv[i].tool = "create-github-gist"
        /\ Falsy(inv[i].tokens)
        /\ IsNeedsAuth(inv[i].result)
        /\ StoredFor(inv[i].agentId) = {}

(***************************************************************************)
(* C2.                                                                     *)
(***************************************************************************)
\* C2: a handler started for a caller after onSuccess stored tokens for that caller
\* issues one outbound call, whose Authorization header is "Bearer " followed by
\* the access token of the latest stored tokens, and no later step of the
\* activation issues another call.
C2_OneCallWithStoredBearer ==
    [][\A i \in Slots :
          /\ (StartStep(i) /\ lastGranted[inv'[i].agentId] # Undefined) =>
                /\ inv'[i].pc = "awaitFetch"
                /\ Len(inv'[i].calls) = 1
                /\ inv'[i].calls[1].authorization = Bearer(lastGranted[inv'[i].agentId])
          /\ ~StartStep(i) => inv'[i].calls = inv[i].calls]_vars

\* an authenticated send-gmail activation that has run to its end with one call made
C2_Witness ==
    \E i \in Slots :
        /\ inv[i].pc = "returned"
        /\ inv[i].tool = "send-gmail"
        /\ lastGranted[inv[i].agentId] # Undefined
        /\ Len(inv[i].calls) = 1
        /\ inv[i].calls[1].authorization = Bearer(lastGranted[inv[i].agentId])

C4_LastWriteWins ==
    \A c \in AgentIds :
        /\ Cardinality({n \in 1..Len(tokenStore) : tokenStore[n].key = c}) <= 1
        /\ lastGranted[c] # Undefined =>
              /\ MapGet(tokenStore, c) = lastGranted[c]
              /\ StoredFor(c) = {lastGranted[c]}

\* a caller re-authenticated: a call made with its first tokens is on record while
\* the store holds its second tokens
C4_Witness ==
    \E i \in Slots :
        /\ Len(inv[i].calls) = 1
        /\ inv[i].calls[1].authorization = "Bearer tok1"
        /\ StoredFor(inv[i].agentId) = {OAuth2Tokens("tok2")}

(***************************************************************************)
(* C5.                                                                     *)
(***************************************************************************)
\* C5: when the outbound call of an authenticated activation fails (a rejected
\* fetch, a status other than 2xx, a body that is not the expected JSON), the
\* activation ends as a failure with no result, and the store is unchanged.
C5_CallFailureIsUnhandledFailure ==
    /\ [](\A i \in Slots :
            (inv[i].pc = "returned" /\ inv[i].result.ui.type = "card") =>
                \A f \in DOMAIN inv[i].result.data.fields :
                    inv[i].result.data.fields[f] # Undefined)
    /\ [][\A i \in Slots :
            /\ (inv[i].pc = "awaitFetch" /\ inv'[i].pc = "failed") =>
                  inv'[i].result = Undefined /\ tokenStore' = tokenStore
            /\ (inv[i].pc = "awaitJson" /\ inv[i].response.status # 200
                    /\ inv'[i].pc # "awaitJson") =>
                  /\ inv'[i].pc = "failed"
                  /\ inv'[i].result = Undefined
                  /\ tokenStore' = tokenStore]_vars

(***************************************************************************)
(* C6.                                                                     *)
(***************************************************************************)
\* C6: a caller that has an entry in the store has one after every step; a handler
\* started for such a caller takes the act branch, and an activation on the act
\* branch never returns the needs-authentication result.
C6_EntriesPersist ==
    [][/\ \A c \in AgentIds : StoredFor(c) # {} => StoredFor(c)' # {}
       /\ \A i \in Slots :
            /\ (StartStep(i) /\ StoredFor(inv'[i].agentId) # {}) =>
                  inv'[i].pc = "awaitFetch" /\ ~Falsy(inv'[i].tokens)
            /\ (inv[i].pc \in {"awaitFetch", "awaitJson"} /\ inv'[i].pc = "returned") =>
                  IsActionResult(inv'[i].result)]_vars

\* both callers hold credentials and an activation for one of them is on the act branch
C6_Witness ==
    /\ \A c \in AgentIds : StoredFor(c) # {}
    /\ \E i \in Slots : inv[i].pc = "awaitJson" /\ ~Falsy(inv[i].tokens)

(***************************************************************************)
(* C8.                                                                     *)
(***************************************************************************)
\* C8: a step that changes the store is a completion callback (it changes no
\* activation, and records the granted tokens); a step of a handler, in either
\* branch and whether it ends in a result or a failure, leaves the store unchanged.
C8_OnlyOnSuccessWrites ==
    [][/\ tokenStore' # tokenStore =>
            /\ inv' = inv
            /\ \E c \in AgentIds, t \in AccessTokens :
                  /\ lastGranted' = [lastGranted EXCEPT ![c] = OAuth2Tokens(t)]
                  /\ \A a \in AgentIds \ {c} : StoredFor(a)' = StoredFor(a)
       /\ inv' # inv => tokenStore' = tokenStore]_vars

\* an authenticated activation has failed after its call and the caller's entry is still there
C8_Witness ==
    \E i \in Slots :
        /\ inv[i].pc = "failed"
        /\ Len(inv[i].calls) = 1
        /\ StoredFor(inv[i].agentId) # {}

(***************************************************************************)
(* C9.                                                                     *)
(***************************************************************************)
\* C9: an activation suspended at generateAuthUrl does not look at the store again:
\* when it resumes it returns the needs-authentication result and makes no call,
\* also when a completion callback has stored the caller's credential meanwhile.
C9_NoAtomicCheckAndAct ==
    /\ [][\A i \in Slots :
            (inv[i].pc = "awaitAuthUrl" /\ StoredFor(inv[i].agentId) # {}
                /\ inv'[i].pc \notin {"awaitAuthUrl", "failed"}) =>
                  /\ inv'[i].pc = "returned"
                  /\ IsNeedsAuth(inv'[i].result)
                  /\ inv'[i].calls = <<>>
                  /\ raced'[i]]_vars
    /\ [](\A i \in Slots : raced[i] => inv[i].pc = "returned" /\ IsNeedsAuth(inv[i].result))

\* the needs-authentication result was returned at a moment when the store already
\* held the caller's credential
C9_Witness ==
    \E i \in Slots :
        /\ raced[i]
        /\ inv[i].pc = "returned"
        /\ IsNeedsAuth(inv[i].result)
        /\ StoredFor(inv[i].agentId) # {}

====
